---- MODULE Spec2Model ----
(***************************************************************************)
(* Model of app.py: the Streamlit script that stages up to three uploaded  *)
(* law documents, extracts their text, fills one of two prompt templates,  *)
(* streams a GigaChat completion into the page, offers it as a DOCX file   *)
(* and removes the staged files.                                           *)
(*                                                                         *)
(* One behaviour of Spec is one execution of main().  Texts are sequences  *)
(* of characters; the characters are "a" (any non-blank character), " "    *)
(* and "\n".  Calls into external libraries that may raise (open, the      *)
(* loaders, the GigaChat constructor, the stream, os.remove) choose their  *)
(* outcome nondeterministically.                                           *)
(***************************************************************************)
EXTENDS Integers, Sequences, FiniteSets, TLC

VARIABLES
    pc,                \* position of main()
    api_key,           \* st.session_state.api_key
    changes,           \* the three st.file_uploader results
    new_federal_law,
    region_law,
    start_check,       \* st.button result
    idx,               \* position inside the loop / statement group being run
    disk,              \* paths present in the working directory
    saved_files,       \* saved_files: role -> path
    text,              \* changes_text, new_federal_law_text, region_law_text
    extracted,         \* roles on which extract_text_from_file was called
    loaded,            \* templates handed to load_template
    prompt,            \* prompt (the template it was built from)
    input_dict,        \* input_dict
    llm,               \* TRUE once GigaChat(...) returned
    fragments,         \* the chunks chain.stream has yielded so far
    partial,           \* partial
    output_spot,       \* what output_spot.markdown last rendered
    header,            \* TRUE once st.header("Результаты анализа") ran
    docx_file,         \* paragraphs of the document behind st.download_button
    logs,              \* logging.error calls
    errors,            \* st.error calls
    stages             \* stages of the run passed so far

vars == <<pc, api_key, changes, new_federal_law, region_law, start_check, idx,
          disk, saved_files, text, extracted, loaded, prompt, input_dict, llm,
          fragments, partial, output_spot, header, docx_file, logs, errors,
          stages>>

----------------------------------------------------------------------------
(* Bounds *)

\* longest completion stream, in fragments
MaxFragments == 2
\* longest text handed to build_docx in SpecDocx
MaxTextLen == 6

----------------------------------------------------------------------------
(* Values *)

\* an empty uploader, and the "" that saved_files.get falls back to
None == [ext |-> "", corrupt |-> FALSE, content |-> ""]
NoPath == [id |-> 0, name |-> None]
NoDocx == <<>>
NoPrompt == ""
NL == "\n"
SP == " "
Chars == {"a", SP, NL}

\* the fragments a stream may yield
Chunks == {<<"a">>, <<NL>>, <<SP, "a">>}

Roles == <<"changes", "new_federal_law", "region_law">>
RoleSet == {"changes", "new_federal_law", "region_law"}

\* An uploaded file: the suffix of its name, whether its loader raises, and
\* the page_content the loader returns otherwise.  ".PDF" passes the
\* uploader's type filter but not endswith(".pdf").
Uploads ==
    { [ext |-> e, corrupt |-> FALSE, content |-> c] :
          e \in {".docx", ".pdf"}, c \in {"", "text"} }
    \cup { [ext |-> e, corrupt |-> TRUE, content |-> ""] : e \in {".docx", ".pdf"} }
    \cup { [ext |-> ".PDF", corrupt |-> FALSE, content |-> "text"] }

Keys == {"", "key"}

\* user-facing messages
MsgNoKey == "enter the GigaChat API key"
MsgNeedChangesOrNew == "upload the changes or the new federal law"
MsgNeedRegion == "upload the region law"
MsgNeedAll == "upload the changes or the new federal law, and the region law"
MsgRetry == "analysis failed, try again"

EmptyMap == [r \in {} |-> NoPath]

\* one logging.error / st.error call: its message and the path it names
Entry(msg, path) == [msg |-> msg, path |-> path]
Plain(msg) == Entry(msg, NoPath)

Range(f) == { f[x] : x \in DOMAIN f }

Upload(role) ==
    CASE role = "changes" -> changes
      [] role = "new_federal_law" -> new_federal_law
      [] role = "region_law" -> region_law

----------------------------------------------------------------------------
(* Pure functions *)

\* str.strip(): drops leading and trailing whitespace
IsSpace(c) == c \in {SP, NL}

RECURSIVE lstrip(_)
lstrip(s) == IF s # <<>> /\ IsSpace(Head(s)) THEN lstrip(Tail(s)) ELSE s

RECURSIVE rstrip(_)
rstrip(s) ==
    IF s # <<>> /\ IsSpace(s[Len(s)]) THEN rstrip(SubSeq(s, 1, Len(s) - 1)) ELSE s

strip_left_only(s) == lstrip(s)

strip(s) == rstrip(lstrip(s))

\* str.split("\n"): the pieces between separators; always at least one piece
RECURSIVE split(_)
split(s) ==
    IF \A i \in 1..Len(s) : s[i] # NL
    THEN <<s>>
    ELSE LET k == CHOOSE i \in 1..Len(s) :
                      s[i] = NL /\ \A j \in 1..(i - 1) : s[j] # NL
         IN <<SubSeq(s, 1, k - 1)>> \o split(SubSeq(s, k + 1, Len(s)))

\* build_docx: the paragraphs of the document, in order
build_docx(t) == split(strip(t))

\* saved_files.get(role, "")
get(files, role) == IF role \in DOMAIN files THEN files[role] ELSE NoPath

extract_text_from_file_notry(path) ==
    IF path = NoPath THEN [text |-> "", raised |-> FALSE, failed |-> FALSE]
    ELSE IF path.name.ext \in {".docx", ".pdf"}
         THEN IF path.name.corrupt
              THEN [text |-> "", raised |-> TRUE, failed |-> FALSE]
              ELSE [text |-> path.name.content, raised |-> FALSE, failed |-> FALSE]
         ELSE [text |-> "", raised |-> FALSE, failed |-> FALSE]

\* extract_text_from_file: text is the return value, failed says that the
\* except branch ran (logging.error and st.error), raised that an exception
\* left the function
extract_text_from_file(path) ==
    IF path = NoPath THEN [text |-> "", raised |-> FALSE, failed |-> FALSE]
    ELSE IF path.name.ext \in {".docx", ".pdf"}
         THEN IF path.name.corrupt
              THEN [text |-> "", raised |-> FALSE, failed |-> TRUE]
              ELSE [text |-> path.name.content, raised |-> FALSE, failed |-> FALSE]
         ELSE [text |-> "", raised |-> FALSE, failed |-> FALSE]

\* the condition of main's first branch
HasRequired_region_only(c, n, r) == r # None

HasRequired(c, n, r) == (c # None \/ n # None) /\ r # None

\* the message of the three elif/else branches
MissingMessage_swapped(c, n, r) ==
    IF r # None THEN MsgNeedRegion
    ELSE IF c # None \/ n # None THEN MsgNeedChangesOrNew
    ELSE MsgNeedAll

MissingMessage(c, n, r) ==
    IF r # None THEN MsgNeedChangesOrNew
    ELSE IF c # None \/ n # None THEN MsgNeedRegion
    ELSE MsgNeedAll

\* the template chosen by "if changes_text:"
SelectTemplate_always_changes(changes_text) == "changes"

SelectTemplate_by_upload(changes_text) ==
    IF changes # None THEN "changes" ELSE "new_federal_law"

SelectTemplate(changes_text) ==
    IF changes_text # "" THEN "changes" ELSE "new_federal_law"

\* input_dict of the chosen branch
BindInputs(tpl) ==
    IF tpl = "changes"
    THEN [changes |-> text["changes"], region_law |-> text["region_law"]]
    ELSE [new_federal_law |-> text["new_federal_law"],
          region_law |-> text["region_law"]]

----------------------------------------------------------------------------
(* main() *)

Init ==
    /\ pc = "start"
    /\ api_key = ""
    /\ changes = None
    /\ new_federal_law = None
    /\ region_law = None
    /\ start_check = FALSE
    /\ idx = 1
    /\ disk = {}
    /\ saved_files = EmptyMap
    /\ text = [changes |-> "", new_federal_law |-> "", region_law |-> ""]
    /\ extracted = {}
    /\ loaded = {}
    /\ prompt = NoPrompt
    /\ input_dict = EmptyMap
    /\ llm = FALSE
    /\ fragments = <<>>
    /\ partial = <<>>
    /\ output_spot = <<>>
    /\ header = FALSE
    /\ docx_file = NoDocx
    /\ logs = <<>>
    /\ errors = <<>>
    /\ stages = <<>>

\* create_files_upload_section() and st.button: the widgets' current values
CreateFilesUploadSection ==
    /\ pc = "start"
    /\ \E k \in Keys, c \in Uploads \cup {None}, n \in Uploads \cup {None},
          r \in Uploads \cup {None}, b \in BOOLEAN :
          /\ api_key' = k
          /\ changes' = c
          /\ new_federal_law' = n
          /\ region_law' = r
          /\ start_check' = b
    /\ pc' = "button"
    /\ UNCHANGED <<idx, disk, saved_files, text, extracted, loaded, prompt,
                   input_dict, llm, fragments, partial, output_spot, header,
                   docx_file, logs, errors, stages>>

\* if start_check:
Button ==
    /\ pc = "button"
    /\ IF start_check
       THEN /\ pc' = "check_key"
            /\ stages' = Append(stages, "Validating")
       ELSE /\ pc' = "done"
            /\ UNCHANGED stages
    /\ UNCHANGED <<api_key, changes, new_federal_law, region_law, start_check,
                   idx, disk, saved_files, text, extracted, loaded, prompt,
                   input_dict, llm, fragments, partial, output_spot, header,
                   docx_file, logs, errors>>

CheckApiKey_no_return ==
    /\ pc = "check_key"
    /\ pc' = "check_files"
    /\ errors' = IF api_key = "" THEN Append(errors, Plain(MsgNoKey)) ELSE errors
    /\ UNCHANGED <<api_key, changes, new_federal_law, region_law, start_check,
                   idx, disk, saved_files, text, extracted, loaded, prompt,
                   input_dict, llm, fragments, partial, output_spot, header,
                   docx_file, logs, stages>>

\* if not st.session_state.get("api_key"): st.error(...); return
CheckApiKey ==
    /\ pc = "check_key"
    /\ IF api_key = ""
       THEN /\ errors' = Append(errors, Plain(MsgNoKey))
            /\ pc' = "done"
       ELSE /\ pc' = "check_files"
            /\ UNCHANGED errors
    /\ UNCHANGED <<api_key, changes, new_federal_law, region_law, start_check,
                   idx, disk, saved_files, text, extracted, loaded, prompt,
                   input_dict, llm, fragments, partial, output_spot, header,
                   docx_file, logs, stages>>

\* if (changes or new_federal_law) and region_law: ... elif ... elif ... else
CheckFiles ==
    /\ pc = "check_files"
    /\ IF HasRequired(changes, new_federal_law, region_law)
       THEN /\ pc' = "save"
            /\ idx' = 1
            /\ stages' = Append(stages, "Staging")
            /\ UNCHANGED <<logs, errors>>
       ELSE LET msg == MissingMessage(changes, new_federal_law, region_law)
            IN /\ logs' = Append(logs, Plain(msg))
               /\ errors' = Append(errors, Plain(msg))
               /\ pc' = "done"
               /\ UNCHANGED <<idx, stages>>
    /\ UNCHANGED <<api_key, changes, new_federal_law, region_law, start_check,
                   disk, saved_files, text, extracted, loaded, prompt,
                   input_dict, llm, fragments, partial, output_spot, header,
                   docx_file>>

\* one iteration of the loop of save_uploaded_files; save_file writes the
\* file under a fresh name, or raises (leaving the file behind or not)
SaveUploadedFiles ==
    /\ pc = "save"
    /\ LET role == Roles[idx]
           file == Upload(role)
           path == [id |-> idx, name |-> file]
           next == IF idx = Len(Roles) THEN "extract" ELSE "save"
       IN \/ /\ file = None
             /\ pc' = next
             /\ UNCHANGED <<disk, saved_files>>
          \/ /\ file # None
             /\ disk' = disk \cup {path}
             /\ saved_files' = [k \in DOMAIN saved_files \cup {role} |->
                                   IF k = role THEN path ELSE saved_files[k]]
             /\ pc' = next
          \/ /\ file # None
             /\ \E created \in BOOLEAN :
                   disk' = IF created THEN disk \cup {path} ELSE disk
             /\ pc' = "raised"
             /\ UNCHANGED saved_files
    /\ idx' = IF pc' = "save" THEN idx + 1 ELSE 1
    /\ stages' = IF pc' = "extract" THEN Append(stages, "Extracting") ELSE stages
    /\ UNCHANGED <<api_key, changes, new_federal_law, region_law, start_check,
                   text, extracted, loaded, prompt, input_dict, llm, fragments,
                   partial, output_spot, header, docx_file, logs, errors>>

\* one of the three "..._text = extract_text_from_file(...) if ... else ''"
ExtractText ==
    /\ pc = "extract"
    /\ LET role == Roles[idx]
           path == get(saved_files, role)
           res == extract_text_from_file(path)
           next == IF idx = Len(Roles) THEN "template" ELSE "extract"
       IN IF Upload(role) = None
          THEN /\ pc' = next
               /\ UNCHANGED <<text, extracted, logs, errors>>
          ELSE /\ extracted' = extracted \cup {role}
               /\ IF res.raised
                  THEN /\ pc' = "raised"
                       /\ UNCHANGED <<text, logs, errors>>
                  ELSE /\ pc' = next
                       /\ text' = [text EXCEPT ![role] = res.text]
                       /\ logs' = IF res.failed
                                  THEN Append(logs, Entry("read error", path))
                                  ELSE logs
                       /\ errors' = IF res.failed
                                    THEN Append(errors, Entry("read error", path))
                                    ELSE errors
    /\ idx' = IF pc' = "extract" THEN idx + 1 ELSE 1
    /\ stages' = IF pc' = "template" THEN Append(stages, "Completing") ELSE stages
    /\ UNCHANGED <<api_key, changes, new_federal_law, region_law, start_check,
                   disk, saved_files, loaded, prompt, input_dict, llm,
                   fragments, partial, output_spot, header, docx_file>>

\* if changes_text: ... else: ...; load_template opens the template file,
\* which may raise
LoadTemplate ==
    /\ pc = "template"
    /\ LET tpl == SelectTemplate(text["changes"])
       IN /\ loaded' = loaded \cup {tpl}
          /\ \/ /\ prompt' = tpl
                /\ input_dict' = BindInputs(tpl)
                /\ pc' = "client"
             \/ /\ pc' = "raised"
                /\ UNCHANGED <<prompt, input_dict>>
    /\ UNCHANGED <<api_key, changes, new_federal_law, region_law, start_check,
                   idx, disk, saved_files, text, extracted, llm, fragments,
                   partial, output_spot, header, docx_file, logs, errors,
                   stages>>

\* llm = GigaChat(...); chain = prompt | llm | StrOutputParser()
BuildClient ==
    /\ pc = "client"
    /\ \/ /\ llm' = TRUE
          /\ pc' = "stream"
       \/ /\ pc' = "raised"
          /\ UNCHANGED llm
    /\ UNCHANGED <<api_key, changes, new_federal_law, region_law, start_check,
                   idx, disk, saved_files, text, extracted, loaded, prompt,
                   input_dict, fragments, partial, output_spot, header,
                   docx_file, logs, errors, stages>>

\* for chunk in chain.stream(input_dict): partial += chunk; markdown(partial)
StreamChunk ==
    /\ pc = "stream"
    /\ Len(fragments) < MaxFragments
    /\ \E chunk \in Chunks :
          /\ fragments' = Append(fragments, chunk)
          /\ partial' = partial \o chunk
          /\ output_spot' = partial \o chunk
    /\ UNCHANGED <<pc, api_key, changes, new_federal_law, region_law,
                   start_check, idx, disk, saved_files, text, extracted,
                   loaded, prompt, input_dict, llm, header, docx_file, logs,
                   errors, stages>>

StreamRaise_exports ==
    /\ pc = "stream"
    /\ logs' = Append(logs, Plain("analysis error"))
    /\ errors' = Append(errors, Plain(MsgRetry))
    /\ docx_file' = build_docx(partial)
    /\ pc' = "finally"
    /\ stages' = Append(stages, "Failed")
    /\ UNCHANGED <<api_key, changes, new_federal_law, region_law, start_check,
                   idx, disk, saved_files, text, extracted, loaded, prompt,
                   input_dict, llm, fragments, partial, output_spot, header>>

\* the stream raises: except Exception: logging.error; st.error
StreamRaise ==
    /\ pc = "stream"
    /\ logs' = Append(logs, Plain("analysis error"))
    /\ errors' = Append(errors, Plain(MsgRetry))
    /\ pc' = "finally"
    /\ stages' = Append(stages, "Failed")
    /\ UNCHANGED <<api_key, changes, new_federal_law, region_law, start_check,
                   idx, disk, saved_files, text, extracted, loaded, prompt,
                   input_dict, llm, fragments, partial, output_spot, header,
                   docx_file>>

\* the stream ends: st.header; build_docx(partial); st.download_button
StreamEnd ==
    /\ pc = "stream"
    /\ header' = TRUE
    /\ docx_file' = build_docx(partial)
    /\ pc' = "finally"
    /\ stages' = Append(stages, "Succeeded")
    /\ UNCHANGED <<api_key, changes, new_federal_law, region_law, start_check,
                   idx, disk, saved_files, text, extracted, loaded, prompt,
                   input_dict, llm, fragments, partial, output_spot, logs,
                   errors>>

\* saved_files.values(), in insertion order
Values(files) ==
    LET present == SelectSeq(Roles, LAMBDA r : r \in DOMAIN files)
    IN [i \in 1..Len(present) |-> files[present[i]]]

\* finally: delete_files(saved_files.values()); the first os.remove that
\* raises ends the loop
DeleteFiles ==
    /\ pc = "finally"
    /\ LET files == Values(saved_files)
       IN \E k \in 0..Len(files) :
             /\ disk' = disk \ { files[i] : i \in 1..k }
             /\ logs' = IF k < Len(files)
                        THEN Append(logs, Entry("delete error", files[k + 1]))
                        ELSE logs
    /\ pc' = "done"
    /\ stages' = Append(stages, "CleanedUp")
    /\ UNCHANGED <<api_key, changes, new_federal_law, region_law, start_check,
                   idx, saved_files, text, extracted, loaded, prompt,
                   input_dict, llm, fragments, partial, output_spot, header,
                   docx_file, errors>>

Next ==
    \/ CreateFilesUploadSection
    \/ Button
    \/ CheckApiKey
    \/ CheckFiles
    \/ SaveUploadedFiles
    \/ ExtractText
    \/ LoadTemplate
    \/ BuildClient
    \/ StreamChunk
    \/ StreamRaise
    \/ StreamEnd
    \/ DeleteFiles

Spec == Init /\ [][Next]_vars

\* main() has returned, or an exception has left it
RunEnded == pc \in {"done", "raised"}

----------------------------------------------------------------------------
(* build_docx on its own: every text up to MaxTextLen characters *)

Texts == UNION { [1..n -> Chars] : n \in 0..MaxTextLen }

InitDocx ==
    /\ pc = "build_docx"
    /\ partial \in Texts
    /\ api_key = ""
    /\ changes = None
    /\ new_federal_law = None
    /\ region_law = None
    /\ start_check = FALSE
    /\ idx = 1
    /\ disk = {}
    /\ saved_files = EmptyMap
    /\ text = [changes |-> "", new_federal_law |-> "", region_law |-> ""]
    /\ extracted = {}
    /\ loaded = {}
    /\ prompt = NoPrompt
    /\ input_dict = EmptyMap
    /\ llm = FALSE
    /\ fragments = <<>>
    /\ output_spot = <<>>
    /\ header = FALSE
    /\ docx_file = NoDocx
    /\ logs = <<>>
    /\ errors = <<>>
    /\ stages = <<>>

\* docx_file = build_docx(partial)
BuildDocx ==
    /\ pc = "build_docx"
    /\ docx_file' = build_docx(partial)
    /\ pc' = "built"
    /\ UNCHANGED <<api_key, changes, new_federal_law, region_law, start_check,
                   idx, disk, saved_files, text, extracted, loaded, prompt,
                   input_dict, llm, fragments, partial, output_spot, header,
                   logs, errors, stages>>

NextDocx == BuildDocx

SpecDocx == InitDocx /\ [][NextDocx]_vars

----------------------------------------------------------------------------
(* Properties *)

StageSet == { stages[i] : i \in 1..Len(stages) }
Shown == { errors[i].msg : i \in 1..Len(errors) }
Logged == { logs[i].msg : i \in 1..Len(logs) }

\* at least one of the two federal documents, and the region law
DocumentsSupplied ==
    (changes # None \/ new_federal_law # None) /\ region_law # None

\* nothing of the pipeline has happened
NoSideEffect ==
    /\ disk = {}
    /\ saved_files = EmptyMap
    /\ extracted = {}
    /\ loaded = {}
    /\ prompt = NoPrompt
    /\ ~llm
    /\ fragments = <<>>
    /\ ~header
    /\ docx_file = NoDocx
    /\ "Staging" \notin StageSet

\* C1: once a run that got past staging has ended, none of the files it
\* staged is on disk.
C1_NoStagedFileRemains ==
    (RunEnded /\ "Extracting" \in StageSet) =>
        \A role \in DOMAIN saved_files : saved_files[role] \notin disk

\* C2 as stated: a run is staged only when exactly one of the changes and the
\* new-federal-law document is uploaded, together with the region law.
C2_ExactlyOneFederalDocument ==
    "Staging" \in StageSet =>
        /\ (changes # None) # (new_federal_law # None)
        /\ region_law # None

\* C2 amended: a run is staged only when at least one of the changes and the
\* new-federal-law document is uploaded together with the region law; a
\* pressed run with any other combination ends with one message shown and
\* nothing staged.
C2_RunNeedsDocuments ==
    /\ ("Staging" \in StageSet \/ disk # {} \/ extracted # {} \/ llm)
           => DocumentsSupplied
    /\ (RunEnded /\ start_check /\ ~DocumentsSupplied)
           => (Len(errors) = 1 /\ NoSideEffect)

C2_Witness ==
    /\ changes # None
    /\ new_federal_law # None
    /\ region_law # None
    /\ pc = "stream"
    /\ Cardinality(disk) = 3

\* C3: with a credential and the button pressed, each missing-input
\* combination ends with exactly its own warning shown, the three warnings
\* differ, and nothing is written to disk.
C3_MissingInputWarnings ==
    /\ Cardinality({MsgNeedChangesOrNew, MsgNeedRegion, MsgNeedAll}) = 3
    /\ (RunEnded /\ start_check /\ api_key # "" /\ ~DocumentsSupplied) =>
          /\ Len(errors) = 1
          /\ disk = {}
          /\ saved_files = EmptyMap
          /\ (region_law # None => Shown = {MsgNeedChangesOrNew})
          /\ (region_law = None /\ (changes # None \/ new_federal_law # None)
                 => Shown = {MsgNeedRegion})
          /\ (region_law = None /\ changes = None /\ new_federal_law = None
                 => Shown = {MsgNeedAll})

C3_Witness ==
    /\ RunEnded
    /\ start_check
    /\ api_key # ""
    /\ region_law = None
    /\ changes = None
    /\ new_federal_law # None
    /\ Shown = {MsgNeedRegion}

\* C4: once the prompt is assembled exactly one template was loaded; a
\* non-empty changes text gives the changes template bound to changes and
\* region_law, and no changes document with the other two present gives the
\* new-law template bound to new_federal_law and region_law.
C4_OneTemplatePerRun ==
    /\ Cardinality(loaded) <= 1
    /\ prompt # NoPrompt =>
          /\ loaded = {prompt}
          /\ text["changes"] # "" =>
                /\ prompt = "changes"
                /\ DOMAIN input_dict = {"changes", "region_law"}
                /\ input_dict["changes"] = text["changes"]
                /\ input_dict["region_law"] = text["region_law"]
          /\ (changes = None /\ new_federal_law # None /\ region_law # None) =>
                /\ prompt = "new_federal_law"
                /\ DOMAIN input_dict = {"new_federal_law", "region_law"}
                /\ input_dict["new_federal_law"] = text["new_federal_law"]
                /\ input_dict["region_law"] = text["region_law"]

C4_Witness ==
    /\ prompt = "changes"
    /\ new_federal_law # None
    /\ text["new_federal_law"] # ""
    /\ DOMAIN input_dict = {"changes", "region_law"}

\* C5: a pressed run with an empty credential never stages, extracts, loads
\* a template, builds or calls the model or logs a warning, and ends with
\* the credential error as the only message.
C5_NoCredentialNoSideEffect ==
    (start_check /\ api_key = "") =>
        /\ NoSideEffect
        /\ logs = <<>>
        /\ Shown \subseteq {MsgNoKey}
        /\ RunEnded => errors = <<Plain(MsgNoKey)>>

C5_Witness ==
    /\ RunEnded
    /\ start_check
    /\ api_key = ""
    /\ changes # None
    /\ region_law # None
    /\ errors = <<Plain(MsgNoKey)>>

RECURSIVE Concat(_)
Concat(fs) == IF fs = <<>> THEN <<>> ELSE Head(fs) \o Concat(Tail(fs))

\* C6: a stream that raised is logged and answered with the retry message,
\* without results heading or export; an export exists only after a stream
\* that ended without raising, and is built from all fragments concatenated.
C6_NoExportAfterStreamError ==
    /\ "Failed" \in StageSet =>
          /\ "analysis error" \in Logged
          /\ MsgRetry \in Shown
          /\ ~header
          /\ docx_file = NoDocx
    /\ docx_file # NoDocx =>
          /\ "Succeeded" \in StageSet
          /\ "Failed" \notin StageSet
          /\ header
          /\ docx_file = build_docx(Concat(fragments))

C6_Witness ==
    /\ "Failed" \in StageSet
    /\ Len(fragments) >= 1
    /\ output_spot # <<>>
    /\ RunEnded

\* C7: an extraction step never leaves main by an exception: an unsupported
\* extension gives the empty text silently, a loader that raises gives the
\* empty text with one log entry and one error shown, and the run goes on
\* to the next extraction or to prompt assembly.
C7_ExtractionNeverRaises ==
    [][ (pc = "extract" /\ Upload(Roles[idx]) # None) =>
          LET role == Roles[idx]
              file == Upload(Roles[idx])
          IN /\ pc' \in {"extract", "template"}
             /\ file.ext \notin {".docx", ".pdf"} =>
                   /\ text'[role] = ""
                   /\ logs' = logs
                   /\ errors' = errors
             /\ (file.ext \in {".docx", ".pdf"} /\ file.corrupt) =>
                   /\ text'[role] = ""
                   /\ Len(logs') = Len(logs) + 1
                   /\ Len(errors') = Len(errors) + 1
                   /\ logs'[Len(logs')].msg = "read error"
                   /\ errors'[Len(errors')].msg = "read error"
      ]_vars

C7_Witness ==
    /\ pc = "stream"
    /\ region_law.corrupt
    /\ text["region_law"] = ""
    /\ "read error" \in Shown
    /\ llm

\* the lines of a text joined back with line breaks
RECURSIVE Join(_)
Join(ps) ==
    IF Len(ps) = 1 THEN ps[1] ELSE ps[1] \o <<NL>> \o Join(Tail(ps))

NoLineBreak(ps) == \A i \in 1..Len(ps) : \A j \in 1..Len(ps[i]) : ps[i][j] # NL

\* C8 as stated: the paragraphs are the newline-delimited lines of the
\* completion text itself, for every text.
C8_ParagraphPerLine ==
    pc = "built" =>
        /\ Len(docx_file) >= 1
        /\ NoLineBreak(docx_file)
        /\ Join(docx_file) = partial

\* C8 amended: the paragraphs are the newline-delimited lines of the
\* completion text without its leading and trailing whitespace.
C8_ParagraphPerLineOfStrippedText ==
    pc = "built" =>
        /\ Len(docx_file) >= 1
        /\ NoLineBreak(docx_file)
        /\ \E i \in 0..Len(partial) : \E j \in i..Len(partial) :
              /\ \A k \in 1..i : partial[k] \in {SP, NL}
              /\ \A k \in (j + 1)..Len(partial) : partial[k] \in {SP, NL}
              /\ i < j => (partial[i + 1] \notin {SP, NL} /\ partial[j] \notin {SP, NL})
              /\ Join(docx_file) = SubSeq(partial, i + 1, j)

C8_Witness ==
    /\ pc = "built"
    /\ partial = <<NL, "a", NL, NL, "a", SP>>
    /\ docx_file = << <<"a">>, <<>>, <<"a">> >>

\* C9: the stages are passed in order, the model call starts only after
\* every present upload is staged and extracted, and a run that has staged
\* its files ends in exactly one of Succeeded and Failed with the cleanup
\* step executed.
C9_StagesInOrderThenCleanedUp ==
    /\ \E outcome \in {"Succeeded", "Failed"} :
          LET order == <<"Validating", "Staging", "Extracting", "Completing",
                         outcome, "CleanedUp">>
          IN /\ Len(stages) <= Len(order)
             /\ stages = SubSeq(order, 1, Len(stages))
    /\ pc = "stream" =>
          \A role \in RoleSet :
              Upload(role) # None => (role \in DOMAIN saved_files /\ role \in extracted)
    /\ (RunEnded /\ "Extracting" \in StageSet) =>
          /\ Cardinality(StageSet \cap {"Succeeded", "Failed"}) = 1
          /\ "CleanedUp" \in StageSet

\* C10 as stated: a changes document uploaded with a region law always gives
\* the changes template, and the new-law template is used only without a
\* changes document.
C10_TemplateByUpload ==
    prompt # NoPrompt =>
        /\ (changes # None /\ region_law # None) => prompt = "changes"
        /\ prompt = "new_federal_law" => changes = None

\* C10 amended: the changes template is used exactly when the text extracted
\* from the changes document is non-empty; a changes document whose
\* extraction fails or gives no text leads to the new-law template.
C10_TemplateByExtractedText ==
    prompt # NoPrompt =>
        /\ prompt = "changes" <=> text["changes"] # ""
        /\ prompt = "new_federal_law" <=> text["changes"] = ""
        /\ (changes # None /\
            (changes.corrupt \/ changes.content = ""
                \/ changes.ext \notin {".docx", ".pdf"}))
              => prompt = "new_federal_law"

C10_Witness ==
    /\ prompt = "new_federal_law"
    /\ changes # None
    /\ changes.corrupt
    /\ new_federal_law = None
    /\ region_law # None
    /\ llm

====
